---- MODULE Spec2Model ----
(***************************************************************************)
(* Solitaire leaderboard server (src/server2.js): an Express application   *)
(* over one PostgreSQL table `scores`, an in-memory per-IP rate limiter,   *)
(* and a bootstrap that creates the table before the listener opens.       *)
(*                                                                         *)
(* Strings are sequences of one-character strings.  A JavaScript value is  *)
(* a record [type, s, int, frac]: type is the result of typeof, s the      *)
(* characters of a string, int.frac a number with one decimal digit.       *)
(* Every async handler is split at its single `await pool.query(...)`:     *)
(* the synchronous prefix is one action, the datastore's execution of the  *)
(* statement together with the handler's continuation is another.          *)
(***************************************************************************)
EXTENDS Integers, Sequences, FiniteSets, TLC

\* ---- program constants ----
MIN_TIME == 30
MAX_TIME == 86400
MAX_NAME == 30
WINDOW_MS == 60000
RATE_MAX == 5
TOP_LIMIT == 100

\* ---- bounds of the exploration ----
MaxTicks == 1
MaxPosts == 2
ExtraPosts == 2
MaxInFlight == 1
MaxNewRows == 2
ExtraLen == 1
PersistedPosts == 1
PersistedNewRows == 1
ConcurrentFlight == 2
BurstExtra == 1
BurstFlight == 3
BurstOthers == 1

\* ---- JavaScript values ----
Undef == [type |-> "undefined", s |-> <<>>, int |-> 0, frac |-> 0]
Str(chars) == [type |-> "string", s |-> chars, int |-> 0, frac |-> 0]
Num(i, f) == [type |-> "number", s |-> <<>>, int |-> i, frac |-> f]

Rep(c, n) == [i \in 1..n |-> c]
Min(a, b) == IF a < b THEN a ELSE b

Whitespace == {" ", "\t"}

RECURSIVE TrimStart(_)
TrimStart(s) ==
  IF s = <<>> THEN s
  ELSE IF Head(s) \in Whitespace THEN TrimStart(Tail(s)) ELSE s

RECURSIVE TrimEnd(_)
TrimEnd(s) ==
  IF s = <<>> THEN s
  ELSE IF s[Len(s)] \in Whitespace THEN TrimEnd(SubSeq(s, 1, Len(s) - 1)) ELSE s

\* String.prototype.trim
Trim(s) == TrimEnd(TrimStart(s))

\* String.prototype.slice(0, n)
Slice0(s, n) == SubSeq(s, 1, Min(n, Len(s)))

\* Number.isInteger on a number value
IsInteger(v) == v.frac = 0

\* ---- parseInt(s, 10) ----
DigitVal == [c \in {"0", "1", "2", "3", "4", "5", "6", "7", "8", "9"} |->
               CASE c = "0" -> 0 [] c = "1" -> 1 [] c = "2" -> 2 [] c = "3" -> 3
                 [] c = "4" -> 4 [] c = "5" -> 5 [] c = "6" -> 6 [] c = "7" -> 7
                 [] c = "8" -> 8 [] c = "9" -> 9]

RECURSIVE DigitPrefix(_)
DigitPrefix(s) ==
  IF s = <<>> \/ Head(s) \notin DOMAIN DigitVal THEN <<>>
  ELSE <<Head(s)>> \o DigitPrefix(Tail(s))

RECURSIVE DigitsValue(_)
DigitsValue(d) ==
  IF d = <<>> THEN 0
  ELSE 10 * DigitsValue(SubSeq(d, 1, Len(d) - 1)) + DigitVal[d[Len(d)]]

NaN == [nan |-> TRUE, val |-> 0]

ParseInt(s) ==
  LET t == TrimStart(s)
      neg == t # <<>> /\ Head(t) = "-"
      body == IF t # <<>> /\ Head(t) \in {"-", "+"} THEN Tail(t) ELSE t
      d == DigitPrefix(body)
  IN IF d = <<>> THEN NaN
     ELSE [nan |-> FALSE, val |-> IF neg THEN 0 - DigitsValue(d) ELSE DigitsValue(d)]


\* ---- ORDER BY time ASC LIMIT n ----
\* The order of rows with equal time is left to the datastore: tie is the
\* choice it makes (by ascending or by descending id).
BeforeDescending(a, b, tie) ==
  \/ a.time > b.time
  \/ a.time = b.time /\ (IF tie = "asc" THEN a.id < b.id ELSE a.id > b.id)

Before(a, b, tie) ==
  \/ a.time < b.time
  \/ a.time = b.time /\ (IF tie = "asc" THEN a.id < b.id ELSE a.id > b.id)

\* the row at position p is the one that exactly p - 1 rows come before
OrderByTime(rows, tie) ==
  LET n == Len(rows)
      ranked == {<<Cardinality({j \in 1..n : Before(rows[j], rows[i], tie)}) + 1, i>> :
                   i \in 1..n}
  IN [p \in 1..n |-> rows[(CHOOSE pr \in ranked : pr[1] = p)[2]]]

LimitPlusOne(rows, n) == SubSeq(rows, 1, Min(n + 1, Len(rows)))

Limit(rows, n) == SubSeq(rows, 1, Min(n, Len(rows)))

TopScores(rows, tie) == Limit(OrderByTime(rows, tie), TOP_LIMIT)

\* ---- the scores table's column constraints ----
\* name VARCHAR(30) NOT NULL: a longer value is an error unless the excess
\* is all spaces, which is cut off.
VarcharFits(name) ==
  \A i \in (MAX_NAME + 1)..Len(name) : name[i] = " "

Varchar(name) == SubSeq(name, 1, Min(MAX_NAME, Len(name)))

\* time INTEGER NOT NULL: the parameter must read as a whole number
IntegerFits(time) ==
  \/ time.type = "number" /\ time.frac = 0
  \/ time.type = "string" /\ time.s # <<>> /\ DigitPrefix(time.s) = time.s

Integer(time) == IF time.type = "number" THEN time.int ELSE DigitsValue(time.s)

\* ---- inputs ----
Keys == {"ip1", "ip2"}

GoodName == Str(<<"a">>)
GoodTime == Num(45, 0)

NameInputs ==
  { Undef, Num(5, 0), Str(<<>>), Str(<<" ", " ">>), Str(<<" ", "a", " ">>),
    Str(Rep("a", MAX_NAME)),
    Str(Rep("a", MAX_NAME + ExtraLen)),
    Str(Rep("a", MAX_NAME - 1) \o <<" ">> \o Rep("a", ExtraLen)),
    Str(<<" ">> \o Rep("a", MAX_NAME) \o <<"\t">>) }

TimeInputs ==
  { Undef, Str(<<"4", "5">>), Num(45, 5), Num(MIN_TIME - 1, 0), Num(MIN_TIME, 0),
    Num(MAX_TIME, 0), Num(MAX_TIME + 1, 0), Num(0 - 5, 0), Num(MIN_TIME - 1, 5),
    Num(MAX_TIME + 1, 5) }

Bodies ==
  {[name |-> n, time |-> GoodTime] : n \in NameInputs \cup {GoodName}}
  \cup {[name |-> GoodName, time |-> t] : t \in TimeInputs}
  \cup {[name |-> Str(<<" ">>), time |-> Num(MIN_TIME - 1, 0)],
        [name |-> Undef, time |-> Num(45, 5)]}

LimiterBodies ==
  {[name |-> GoodName, time |-> GoodTime], [name |-> Str(<<" ">>), time |-> GoodTime]}

PersistedBodies ==
  {[name |-> Str(<<" ", "a", " ">>), time |-> Num(MIN_TIME, 0)],
   [name |-> GoodName, time |-> Num(MAX_TIME, 0)],
   [name |-> GoodName, time |-> Num(MAX_TIME + 1, 0)]}

Secret == Str(<<"k", "e", "y">>)
AdminKeys == {Undef, Secret}
Headers == {Undef, Secret, Str(<<"x">>)}
IdSegs == { <<"1">>, <<"2">>, <<"2", "a">>, <<"a">>, <<"a", "1">>, <<"-", "1">> }
Deltas == {WINDOW_MS, WINDOW_MS + 1}

\* ---- state ----
VARIABLES
  pc,             \* position of the start-up promise chain
  dbReady,        \* initDB's statement has been executed
  listening,      \* app.listen has been called
  exitCode,       \* process.exit code, -1 while running
  adminKey,       \* process.env.ADMIN_KEY
  now,            \* Date.now() and the datastore's NOW()
  scores,         \* rows of the scores table, in heap order
  nextId,         \* next value of the SERIAL sequence of scores.id
  rateLimitStore, \* the limiter's Map: ip -> {count, reset}
  pending,        \* statements handed to pool.query and not yet answered
  res,            \* the last response sent
  win,            \* history: per ip, start of its window, POSTs since, and
                  \* whether the window before it went over the limit
  everIds,        \* history: every id a row was ever inserted with
  ticks,          \* history: number of clock advances
  cfg             \* what this run explores: bodies, keys, caps on the counters

vars == <<pc, dbReady, listening, exitCode, adminKey, now, scores, nextId,
          rateLimitStore, pending, res, win, everIds, ticks, cfg>>

boot == <<pc, dbReady, listening, exitCode, adminKey, cfg>>

NoEntry == [present |-> FALSE, count |-> 0, reset |-> 0]
NoWindow == [open |-> FALSE, start |-> 0, posts |-> 0, passed |-> 0, refilled |-> FALSE]

NoRes == [op |-> "none", status |-> 0, error |-> "", rows |-> <<>>]

Response(op, status, error, rows) ==
  [op |-> op, status |-> status, error |-> error, rows |-> rows]

\* A table left by earlier runs of the server: the table and its sequence
\* outlive the process (CREATE TABLE IF NOT EXISTS keeps them).
PersistedTable(n) ==
  [i \in 1..n |-> [id |-> i, name |-> <<"a">>,
                   time |-> MIN_TIME + ((i * 3) % 7), date |-> 0]]

\* others caps the statements in flight that are not INSERTs
Explore(keys, bodies, posts, rows, flight, others) ==
  [keys |-> keys, bodies |-> bodies, posts |-> posts, rows |-> rows, flight |-> flight,
   others |-> others]

InitWith(table, explore) ==
  /\ pc = "initDB"
  /\ dbReady = FALSE
  /\ listening = FALSE
  /\ exitCode = -1
  /\ adminKey \in AdminKeys
  /\ now = 0
  /\ scores = table
  /\ nextId = Len(table) + 1
  /\ rateLimitStore = [k \in Keys |-> NoEntry]
  /\ pending = {}
  /\ res = NoRes
  /\ win = [k \in Keys |-> NoWindow]
  /\ everIds = 1..Len(table)
  /\ ticks = 0
  /\ cfg = explore

\* a fresh database, every kind of body
Init == InitWith(<<>>, Explore({"ip1"}, Bodies, MaxPosts, MaxNewRows, MaxInFlight, MaxInFlight))

\* a fresh database, enough POSTs to fill a window and to outlive it
InitLimiter ==
  InitWith(<<>>, Explore(Keys, LimiterBodies, RATE_MAX + ExtraPosts, 1, MaxInFlight,
                         MaxInFlight))

\* a fresh database, statements of several requests in flight together
InitConcurrent ==
  InitWith(<<>>, Explore({"ip1"}, LimiterBodies, MaxPosts, MaxNewRows, ConcurrentFlight,
                         ConcurrentFlight))

\* one key whose POSTs may all be waiting for the datastore together
InitBurst ==
  InitWith(<<>>, Explore({"ip1"}, LimiterBodies, RATE_MAX + BurstExtra, BurstFlight,
                         BurstFlight, BurstOthers))

\* a restart over a table of about TOP_LIMIT rows

InitPersisted ==
  InitWith(PersistedTable(TOP_LIMIT),
           Explore({"ip1"}, PersistedBodies, PersistedPosts, TOP_LIMIT + PersistedNewRows,
                   MaxInFlight, MaxInFlight))

\* ---- start-up: initDB().then(listen).catch(exit) ----
InitDBResolve ==
  /\ pc = "initDB"
  /\ dbReady' = TRUE
  /\ pc' = "then"
  /\ UNCHANGED <<listening, exitCode, adminKey, cfg, now, scores, nextId,
                 rateLimitStore, pending, res, win, everIds, ticks>>

InitDBReject ==
  /\ pc = "initDB"
  /\ pc' = "catch"
  /\ UNCHANGED <<dbReady, listening, exitCode, adminKey, cfg, now, scores, nextId,
                 rateLimitStore, pending, res, win, everIds, ticks>>

ThenReadyNoWait == pc \in {"initDB", "then"}

ThenReady == pc = "then"

Listen ==
  /\ ThenReady
  /\ listening' = TRUE
  /\ pc' = "serving"
  /\ UNCHANGED <<dbReady, exitCode, adminKey, cfg, now, scores, nextId,
                 rateLimitStore, pending, res, win, everIds, ticks>>

Exit ==
  /\ pc = "catch"
  /\ exitCode' = 1
  /\ pc' = "exited"
  /\ UNCHANGED <<dbReady, listening, adminKey, cfg, now, scores, nextId,
                 rateLimitStore, pending, res, win, everIds, ticks>>

\* the listener dispatches requests while the process runs
Serving == listening /\ exitCode = -1

\* ---- the clock ----
Tick(d) ==
  /\ Serving
  /\ ticks < MaxTicks
  /\ now' = now + d
  /\ ticks' = ticks + 1
  /\ UNCHANGED <<boot, scores, nextId, rateLimitStore, pending, res, win, everIds>>

\* ---- isRateLimited(ip) ----
WindowExpiredAtReset(data, t) == t >= data.reset

WindowExpired(data, t) == t > data.reset

IsOverLimitAtMax(count) == count >= RATE_MAX

IsOverLimit(count) == count > RATE_MAX

RateLimitDataLostUpdate(store, ip, t) ==
  LET data == IF ~store[ip].present \/ WindowExpired(store[ip], t)
              THEN [present |-> TRUE, count |-> 0, reset |-> t + WINDOW_MS]
              ELSE store[ip]
  IN IF \E q \in pending : q.op = "INSERT" THEN [data EXCEPT !.present = TRUE]
     ELSE [data EXCEPT !.count = @ + 1]

RateLimitDataCountOnce(store, ip, t) ==
  IF ~store[ip].present \/ WindowExpired(store[ip], t)
  THEN [present |-> TRUE, count |-> 1, reset |-> t + WINDOW_MS]
  ELSE store[ip]

\* the entry stored for ip by a call at time t
RateLimitData(store, ip, t) ==
  LET data == IF ~store[ip].present \/ WindowExpired(store[ip], t)
              THEN [present |-> TRUE, count |-> 0, reset |-> t + WINDOW_MS]
              ELSE store[ip]
  IN [data EXCEPT !.count = @ + 1]

\* ---- validation of a POST body ----
ErrName == "name is required"
ErrInt == "time must be an integer (seconds)"
ErrFast == "Time too fast"
ErrLarge == "Time value is unrealistically large"

NameOk(name) == ~(name.type # "string" \/ Trim(name.s) = <<>>)

NormalNameCutFirst(name) == Trim(Slice0(name.s, MAX_NAME))

NormalName(name) == Slice0(Trim(name.s), MAX_NAME)

TimeIsInt(time) == ~(time.type # "number" \/ ~IsInteger(time))

TooFastAtMin(time) == time.int <= MIN_TIME

TooFast(time) == time.int < MIN_TIME

TooLargePastMax(time) == time.int > MAX_TIME + 1

TooLarge(time) == time.int > MAX_TIME

ValidateTimeFirst(body) ==
  IF ~TimeIsInt(body.time) THEN [ok |-> FALSE, error |-> ErrInt]
  ELSE IF TooFast(body.time) THEN [ok |-> FALSE, error |-> ErrFast]
  ELSE IF TooLarge(body.time) THEN [ok |-> FALSE, error |-> ErrLarge]
  ELSE IF ~NameOk(body.name) THEN [ok |-> FALSE, error |-> ErrName]
  ELSE [ok |-> TRUE, error |-> ""]

Validate(body) ==
  IF ~NameOk(body.name) THEN [ok |-> FALSE, error |-> ErrName]
  ELSE IF ~TimeIsInt(body.time) THEN [ok |-> FALSE, error |-> ErrInt]
  ELSE IF TooFast(body.time) THEN [ok |-> FALSE, error |-> ErrFast]
  ELSE IF TooLarge(body.time) THEN [ok |-> FALSE, error |-> ErrLarge]
  ELSE [ok |-> TRUE, error |-> ""]

\* a statement in flight; n tells apart equal statements in flight together
Query(op, name, time, id) ==
  LET same == {q \in pending : q.op = op /\ q.name = name /\ q.time = time /\ q.id = id}
      used == {q.n : q \in same}
      free == CHOOSE i \in 0..Cardinality(same) :
                i \notin used /\ \A j \in 0..(i - 1) : j \in used
  IN [op |-> op, name |-> name, time |-> time, id |-> id, n |-> free]

Inserts(qs) == {q \in qs : q.op = "INSERT"}

\* history: the window of POSTs of one client key, with how many of them
\* the limiter let pass
WinAfter(w, t, pass) ==
  LET p == IF pass THEN 1 ELSE 0
  IN IF ~w.open \/ t - w.start > WINDOW_MS
     THEN [open |-> TRUE, start |-> t, posts |-> 1, passed |-> p,
           refilled |-> w.posts > RATE_MAX]
     ELSE [w EXCEPT !.posts = @ + 1, !.passed = @ + p]

\* ---- GET /health ----
Health ==
  /\ Serving
  /\ res' = Response("HEALTH", 200, "", <<>>)
  /\ UNCHANGED <<boot, now, scores, nextId, rateLimitStore, pending, win, everIds, ticks>>

\* ---- GET /api/scores, up to the await ----
GetScores ==
  /\ Serving
  /\ Cardinality(pending) < cfg.flight
  /\ Cardinality(pending \ Inserts(pending)) < cfg.others
  /\ pending' = pending \cup {Query("SELECT", <<>>, Undef, 0)}
  /\ UNCHANGED <<boot, now, scores, nextId, rateLimitStore, res, win, everIds, ticks>>

\* ---- POST /api/scores, up to the await ----
PostScoresValidateFirst(ip, body) ==
  /\ Serving
  /\ LET data == RateLimitData(rateLimitStore, ip, now)
         v == Validate(body)
     IN /\ data.count <= cfg.posts
        /\ rateLimitStore' = [rateLimitStore EXCEPT ![ip] = data]
        /\ win' = [win EXCEPT ![ip] = WinAfter(@, now, ~IsOverLimit(data.count))]
        /\ IF ~v.ok
           THEN /\ res' = Response("POST", 400, v.error, <<>>)
                /\ UNCHANGED pending
           ELSE IF IsOverLimit(data.count)
           THEN /\ res' = Response("POST", 429, "Too many requests. Please wait a minute.", <<>>)
                /\ UNCHANGED pending
           ELSE /\ Cardinality(pending) < cfg.flight
                /\ nextId + Cardinality(Inserts(pending)) <= cfg.rows
                /\ pending' = pending \cup
                     {Query("INSERT", NormalName(body.name), body.time, 0)}
                /\ UNCHANGED res
  /\ UNCHANGED <<boot, now, scores, nextId, everIds, ticks>>

PostScoresOneCounter(ip, body) ==
  /\ Serving
  /\ LET data == RateLimitData(rateLimitStore, CHOOSE k \in Keys : TRUE, now)
         v == Validate(body)
     IN /\ data.count <= cfg.posts
        /\ rateLimitStore' = [rateLimitStore EXCEPT ![CHOOSE k \in Keys : TRUE] = data]
        /\ win' = [win EXCEPT ![ip] = WinAfter(@, now, ~IsOverLimit(data.count))]
        /\ IF IsOverLimit(data.count)
           THEN /\ res' = Response("POST", 429, "Too many requests. Please wait a minute.", <<>>)
                /\ UNCHANGED pending
           ELSE IF ~v.ok
           THEN /\ res' = Response("POST", 400, v.error, <<>>)
                /\ UNCHANGED pending
           ELSE /\ Cardinality(pending) < cfg.flight
                /\ nextId + Cardinality(Inserts(pending)) <= cfg.rows
                /\ pending' = pending \cup
                     {Query("INSERT", NormalName(body.name), body.time, 0)}
                /\ UNCHANGED res
  /\ UNCHANGED <<boot, now, scores, nextId, everIds, ticks>>

PostScores(ip, body) ==
  /\ Serving
  /\ LET data == RateLimitData(rateLimitStore, ip, now)
         v == Validate(body)
     IN /\ data.count <= cfg.posts
        /\ rateLimitStore' = [rateLimitStore EXCEPT ![ip] = data]
        /\ win' = [win EXCEPT ![ip] = WinAfter(@, now, ~IsOverLimit(data.count))]
        /\ IF IsOverLimit(data.count)
           THEN /\ res' = Response("POST", 429, "Too many requests. Please wait a minute.", <<>>)
                /\ UNCHANGED pending
           ELSE IF ~v.ok
           THEN /\ res' = Response("POST", 400, v.error, <<>>)
                /\ UNCHANGED pending
           ELSE /\ Cardinality(pending) < cfg.flight
                /\ nextId + Cardinality(Inserts(pending)) <= cfg.rows
                /\ pending' = pending \cup
                     {Query("INSERT", NormalName(body.name), body.time, 0)}
                /\ UNCHANGED res
  /\ UNCHANGED <<boot, now, scores, nextId, everIds, ticks>>

\* ---- DELETE /api/scores/:id, up to the await ----
Authorized(hdr) == ~(hdr # adminKey)

DeleteScore(hdr, seg) ==
  /\ Serving
  /\ LET id == ParseInt(seg)
     IN IF ~Authorized(hdr)
        THEN /\ res' = Response("DELETE", 403, "Forbidden", <<>>)
             /\ UNCHANGED pending
        ELSE IF id.nan
        THEN /\ res' = Response("DELETE", 400, "Invalid id", <<>>)
             /\ UNCHANGED pending
        ELSE /\ Cardinality(pending) < cfg.flight
             /\ Cardinality(pending \ Inserts(pending)) < cfg.others
             /\ pending' = pending \cup {Query("DELETE", <<>>, Undef, id.val)}
             /\ UNCHANGED res
  /\ UNCHANGED <<boot, now, scores, nextId, rateLimitStore, win, everIds, ticks>>

\* ---- the datastore answers a statement and the handler continues ----
Method(q) ==
  CASE q.op = "SELECT" -> "GET" [] q.op = "INSERT" -> "POST" [] q.op = "DELETE" -> "DELETE"

NewRowCountId(q) ==
  [id |-> Len(scores) + 1, name |-> Varchar(q.name), time |-> Integer(q.time), date |-> now]

NewRow(q) ==
  [id |-> nextId, name |-> Varchar(q.name), time |-> Integer(q.time), date |-> now]

DbSelect(q, tie) ==
  /\ q \in pending /\ q.op = "SELECT"
  /\ dbReady
  /\ pending' = pending \ {q}
  /\ res' = Response("GET", 200, "", TopScores(scores, tie))
  /\ UNCHANGED <<boot, now, scores, nextId, rateLimitStore, win, everIds, ticks>>

DbInsert(q) ==
  /\ q \in pending /\ q.op = "INSERT"
  /\ dbReady
  /\ pending' = pending \ {q}
  /\ IF VarcharFits(q.name) /\ IntegerFits(q.time)
     THEN /\ scores' = Append(scores, NewRow(q))
          /\ everIds' = everIds \cup {NewRow(q).id}
          /\ res' = Response("POST", 201, "", <<>>)
     ELSE /\ res' = Response("POST", 500, "Database error", <<>>)
          /\ UNCHANGED <<scores, everIds>>
  /\ nextId' = nextId + 1
  /\ UNCHANGED <<boot, now, rateLimitStore, win, ticks>>

DeleteWhereUpTo(rows, id) == SelectSeq(rows, LAMBDA r : r.id > id)

DeleteWhere(rows, id) == SelectSeq(rows, LAMBDA r : r.id # id)

DbDeleteNotFound(q) ==
  /\ q \in pending /\ q.op = "DELETE"
  /\ dbReady
  /\ pending' = pending \ {q}
  /\ scores' = DeleteWhere(scores, q.id)
  /\ res' = IF scores' = scores THEN Response("DELETE", 404, "Not found", <<>>)
            ELSE Response("DELETE", 200, "", <<>>)
  /\ UNCHANGED <<boot, now, nextId, rateLimitStore, win, everIds, ticks>>

DbDelete(q) ==
  /\ q \in pending /\ q.op = "DELETE"
  /\ dbReady
  /\ pending' = pending \ {q}
  /\ scores' = DeleteWhere(scores, q.id)
  /\ res' = Response("DELETE", 200, "", <<>>)
  /\ UNCHANGED <<boot, now, nextId, rateLimitStore, win, everIds, ticks>>

DbFailRollsBack(q) ==
  /\ q \in pending
  /\ pending' = pending \ {q}
  /\ res' = Response(Method(q), 500, "Database error", <<>>)
  /\ rateLimitStore' =
       [k \in Keys |->
          IF q.op = "INSERT" /\ rateLimitStore[k].count > 0
          THEN [rateLimitStore[k] EXCEPT !.count = @ - 1] ELSE rateLimitStore[k]]
  /\ UNCHANGED <<boot, now, scores, nextId, win, everIds, ticks>>

\* the statement fails (connection lost, server error): the catch branch
DbFail(q) ==
  /\ q \in pending
  /\ pending' = pending \ {q}
  /\ res' = Response(Method(q), 500, "Database error", <<>>)
  /\ UNCHANGED <<boot, now, scores, nextId, rateLimitStore, win, everIds, ticks>>

Next ==
  \/ InitDBResolve
  \/ InitDBReject
  \/ Listen
  \/ Exit
  \/ \E d \in Deltas : Tick(d)
  \/ Health
  \/ GetScores
  \/ \E ip \in cfg.keys, body \in cfg.bodies : PostScores(ip, body)
  \/ \E hdr \in Headers, seg \in IdSegs : DeleteScore(hdr, seg)
  \/ \E q \in pending, tie \in {"asc", "desc"} : DbSelect(q, tie)
  \/ \E q \in pending : DbInsert(q)
  \/ \E q \in pending : DbDelete(q)
  \/ \E q \in pending : DbFail(q)

Spec == Init /\ [][Next]_vars

SpecLimiter == InitLimiter /\ [][Next]_vars

SpecConcurrent == InitConcurrent /\ [][Next]_vars

SpecPersisted == InitPersisted /\ [][Next]_vars

SpecBurst == InitBurst /\ [][Next]_vars


\* ---- properties ----
Ids(rows) == {rows[i].id : i \in 1..Len(rows)}
Rows(rows) == {rows[i] : i \in 1..Len(rows)}
Ties == {"asc", "desc"}

\* a body the validation rules refuse: name not a string or blank, time not
\* a whole number, or not within MIN_TIME..MAX_TIME
Blank(chars) == \A i \in 1..Len(chars) : chars[i] \in Whitespace

Refused(body) ==
  \/ body.name.type # "string"
  \/ Blank(body.name.s)
  \/ body.time.type # "number"
  \/ body.time.frac # 0
  \/ body.time.int < MIN_TIME
  \/ body.time.int > MAX_TIME

\* the POST just received is the n-th of its key's window
NthOfWindow(ip) == win'[ip].posts

Is(r, op, status) == r.op = op /\ r.status = status

\* kinds of step, told by what they change
PostStep == rateLimitStore' # rateLimitStore
InsertStep == nextId' # nextId
SelectStep == res'.op = "GET" /\ pending' # pending
DeleteStep == Is(res', "DELETE", 200) /\ pending' # pending
AnswerStep == pending' # pending /\ pending' \subseteq pending
DeleteRequestStep ==
  \/ Cardinality(pending') > Cardinality(pending)
  \/ res'.op = "DELETE" /\ pending' = pending

\* C1: counting from the POST that opens a key's window, the first RATE_MAX
\* POSTs of the window pass the limiter (they are validated: 400, or an INSERT
\* is issued), every later POST of the window is answered 429, the first POST
\* after the window passes again, and an INSERT that succeeds is answered 201.
C1_RateLimitWindow ==
  [][ /\ PostStep =>
           \A ip \in Keys, body \in LimiterBodies :
             PostScores(ip, body) =>
               /\ NthOfWindow(ip) <= RATE_MAX =>
                    IF Refused(body) THEN Is(res', "POST", 400) /\ pending' = pending
                    ELSE Cardinality(Inserts(pending')) = Cardinality(Inserts(pending)) + 1
               /\ NthOfWindow(ip) > RATE_MAX => Is(res', "POST", 429) /\ pending' = pending
      /\ InsertStep => \A q \in pending : DbInsert(q) => Is(res', "POST", 201)
    ]_vars

C1_Witness ==
  \E ip \in Keys :
    /\ win[ip].refilled
    /\ win[ip].posts = 1
    /\ Is(res, "POST", 201)

\* C2: every row of the scores table has a time within MIN_TIME..MAX_TIME
\* and a name of 1 to MAX_NAME characters.
C2_StoreInvariant ==
  \A i \in 1..Len(scores) :
    /\ scores[i].time \in MIN_TIME..MAX_TIME
    /\ Len(scores[i].name) \in 1..MAX_NAME

C2_Witness ==
  /\ Len(scores) = 2
  /\ scores[1].time = MAX_TIME
  /\ Len(scores[2].name) = MAX_NAME

\* C3: a POST that passes the limiter with a refused body is answered 400 and
\* neither changes the table nor issues an INSERT; with a valid name and
\* time MIN_TIME or MAX_TIME it is not refused: its INSERT is issued and, when
\* the store succeeds, it is answered 201 and exactly one row is added.
C3_ValidationRejection ==
  [][ /\ PostStep =>
           \A ip \in Keys, body \in Bodies :
             PostScores(ip, body) /\ NthOfWindow(ip) <= RATE_MAX =>
               /\ scores' = scores
               /\ Refused(body) => Is(res', "POST", 400) /\ pending' = pending
               /\ ~Refused(body) =>
                    /\ res' = res
                    /\ \E q \in pending' \ pending :
                         q.op = "INSERT" /\ q.time = body.time /\ pending' = pending \cup {q}
      /\ InsertStep =>
           \A q \in pending :
             DbInsert(q) =>
               /\ Is(res', "POST", 201)
               /\ Len(scores') = Len(scores) + 1
               /\ SubSeq(scores', 1, Len(scores)) = scores
               /\ scores'[Len(scores')].time = q.time.int
    ]_vars

C3_Witness ==
  /\ Len(scores) = 2
  /\ scores[1].time = MIN_TIME
  /\ scores[2].time = MAX_TIME
  /\ Is(res, "POST", 400)
  /\ res.error = ErrLarge

\* C4: the rows GET /api/scores answers with are at most TOP_LIMIT stored
\* rows, min(TOP_LIMIT, number of stored rows) of them, in non-decreasing
\* time, and no omitted row is faster than a returned one; GET leaves the
\* table as it is.
C4_TopScores ==
  [][ /\ GetScores => scores' = scores
      /\ SelectStep =>
           \A q \in pending, tie \in Ties :
             DbSelect(q, tie) =>
               LET rows == res'.rows
                   slowest == IF rows = <<>> THEN 0 ELSE rows[Len(rows)].time
               IN /\ scores' = scores
                  /\ Is(res', "GET", 200)
                  /\ Len(rows) <= TOP_LIMIT
                  /\ Len(rows) = Min(TOP_LIMIT, Len(scores))
                  /\ Rows(rows) \subseteq Rows(scores)
                  /\ Cardinality(Ids(rows)) = Len(rows)
                  /\ \A p \in 1..(Len(rows) - 1) : rows[p].time <= rows[p + 1].time
                  /\ \A r \in Rows(scores) \ Rows(rows) : r.time >= slowest
    ]_vars

C4_Witness ==
  /\ Is(res, "GET", 200)
  /\ Len(res.rows) = TOP_LIMIT
  /\ Len(scores) > TOP_LIMIT
  /\ res.rows[1].time < res.rows[TOP_LIMIT].time

\* the row of the table added last
Newest == scores[Len(scores)]

NotSlower(time) == {i \in 1..Len(scores) : scores[i].time <= time}

\* an accepted POST issues the INSERT of the trimmed and cut name and of the
\* time sent, and the INSERT answered 201 has added that row
InsertsWhatWasSent ==
  /\ PostStep =>
       \A ip \in cfg.keys, body \in cfg.bodies :
         PostScores(ip, body) /\ pending' # pending =>
           \E q \in pending' \ pending :
             q.name = Slice0(Trim(body.name.s), MAX_NAME) /\ q.time = body.time
  /\ InsertStep =>
       \A q \in pending :
         DbInsert(q) /\ Is(res', "POST", 201) =>
           /\ scores'[Len(scores')].name = q.name
           /\ scores'[Len(scores')].time = q.time.int

\* C5 as stated: the rows of a GET that follows a POST answered 201 contain
\* the new row, with the name trimmed and cut and the time sent.
C5_ReadYourWrite_Original ==
  [][ /\ InsertsWhatWasSent
      /\ SelectStep /\ Is(res, "POST", 201) =>
           \A q \in pending, tie \in Ties :
             DbSelect(q, tie) => Newest \in Rows(res'.rows)
    ]_vars

\* C5 amended: the rows of the GET contain the new row whenever at most
\* TOP_LIMIT stored rows have a time not above the new row's time.
C5_ReadYourWrite ==
  [][ /\ InsertsWhatWasSent
      /\ SelectStep /\ Is(res, "POST", 201) =>
           \A q \in pending, tie \in Ties :
             DbSelect(q, tie) /\ Cardinality(NotSlower(Newest.time)) <= TOP_LIMIT =>
               Newest \in Rows(res'.rows)
    ]_vars

C5_Witness ==
  /\ Len(scores) > TOP_LIMIT
  /\ Newest.id > TOP_LIMIT
  /\ Newest.name = <<"a">>
  /\ Is(res, "GET", 200)
  /\ Newest \in Rows(res.rows)

\* the header carries the configured admin secret
CarriesSecret(hdr) == adminKey.type = "string" /\ hdr = adminKey

\* C6 as stated: a DELETE whose x-admin-key header does not carry the
\* configured admin secret is answered 403 and issues no statement, whatever
\* the header, the configuration and the id segment are.
C6_DeleteNeedsSecret ==
  [][ DeleteRequestStep =>
        \A hdr \in Headers, seg \in IdSegs :
          DeleteScore(hdr, seg) /\ ~CarriesSecret(hdr) =>
            /\ Is(res', "DELETE", 403)
            /\ pending' = pending
            /\ scores' = scores
    ]_vars

AllDigits(seg) == seg # <<>> /\ DigitPrefix(seg) = seg

\* C7: a DELETE with the admin secret and a numeral id issues the DELETE of
\* that id; when the store succeeds it is answered 200, no row has that id
\* afterwards, the other rows are as they were, a deleted id never comes
\* back to the table, and a GET answers with stored rows only.
C7_AuthorizedDelete ==
  [][ /\ DeleteRequestStep =>
           \A hdr \in Headers, seg \in IdSegs :
             DeleteScore(hdr, seg) /\ CarriesSecret(hdr) /\ AllDigits(seg) =>
               \E q \in pending' \ pending : q.op = "DELETE" /\ q.id = DigitsValue(seg)
      /\ DeleteStep =>
           \A q \in pending :
             DbDelete(q) =>
               /\ Is(res', "DELETE", 200)
               /\ q.id \notin Ids(scores')
               /\ Rows(scores') = {r \in Rows(scores) : r.id # q.id}
               /\ Len(scores') = Cardinality(Rows(scores'))
      /\ \A id \in everIds \ Ids(scores) : id \notin Ids(scores')
      /\ SelectStep =>
           \A q \in pending, tie \in Ties :
             DbSelect(q, tie) => Ids(res'.rows) \subseteq Ids(scores)
    ]_vars

C7_Witness ==
  /\ Is(res, "DELETE", 200)
  /\ everIds = {1, 2}
  /\ Ids(scores) = {2}

\* C8: a POST beyond the limit is answered 429 whatever its body is; within
\* the limit a refused body is answered 400; neither issues a statement, and
\* an INSERT is issued only for a body that passed both; the handler itself
\* never changes the table.
C8_PostStepOrder ==
  [][ PostStep =>
        \A ip \in Keys, body \in LimiterBodies :
          PostScores(ip, body) =>
            /\ scores' = scores
            /\ NthOfWindow(ip) > RATE_MAX => Is(res', "POST", 429) /\ pending' = pending
            /\ NthOfWindow(ip) <= RATE_MAX /\ Refused(body) =>
                 Is(res', "POST", 400) /\ pending' = pending
            /\ pending' # pending => NthOfWindow(ip) <= RATE_MAX /\ ~Refused(body)
    ]_vars

C8_Witness ==
  \E ip \in Keys :
    /\ win[ip].posts > RATE_MAX + 1
    /\ Is(res, "POST", 429)
    /\ pending = {}
    /\ scores = <<>>

\* C9: ids of rows are distinct and never reused, a row stays as it is until
\* it is deleted, and the table changes only by a POST answered 201, which
\* appends one row, or by a DELETE answered 200, which removes at most one.
C9_RecordsImmutable ==
  [][ /\ Cardinality(Ids(scores')) = Len(scores')
      /\ \A r \in Rows(scores') \ Rows(scores) : r.id \notin everIds \cup Ids(scores)
      /\ \A r \in Rows(scores) : r \in Rows(scores') \/ r.id \notin Ids(scores')
      /\ scores' # scores =>
           \/ /\ Is(res', "POST", 201)
              /\ Len(scores') = Len(scores) + 1
              /\ SubSeq(scores', 1, Len(scores)) = scores
           \/ /\ Is(res', "DELETE", 200)
              /\ Len(scores') = Len(scores) - 1
              /\ Rows(scores') \subseteq Rows(scores)
    ]_vars

C9_Witness ==
  /\ everIds = {1, 2}
  /\ Len(scores) = 1
  /\ scores[1].id = 2
  /\ Is(res, "POST", 201)

\* a request has been handled
Handled == res # NoRes \/ pending # {}

\* C10: the listener is open, and a request handled, only after initDB has
\* succeeded; after initDB has failed the listener is never opened, no
\* request is handled, and the process is left only with exit code 1.
C10_StartupOrder ==
  /\ listening => dbReady /\ pc = "serving"
  /\ Handled => listening
  /\ pc \in {"catch", "exited"} => ~dbReady /\ ~listening /\ ~Handled
  /\ exitCode # -1 <=> pc = "exited"
  /\ pc = "exited" => exitCode = 1

C10_Witness ==
  /\ pc = "serving"
  /\ dbReady
  /\ Is(res, "GET", 200)

\* C11: a POST from a key that has no entry, or whose entry's expiry the
\* clock has passed, is counted as the 1st of a new window that expires
\* WINDOW_MS after the POST arrived, whatever the old window held, and is
\* not answered 429; any other POST, accepted or rejected, is counted in
\* the key's window and leaves the window's expiry as it was.
C11_WindowAnchoring ==
  [][ PostStep =>
        \A ip \in Keys, body \in LimiterBodies :
          PostScores(ip, body) =>
            LET old == rateLimitStore[ip]
                new == rateLimitStore'[ip]
            IN IF ~old.present \/ now > old.reset
               THEN /\ new.count = 1
                    /\ new.reset = now + WINDOW_MS
                    /\ IF Refused(body) THEN Is(res', "POST", 400)
                       ELSE pending' # pending
               ELSE /\ new.count = old.count + 1
                    /\ new.reset = old.reset
    ]_vars

C11_Witness ==
  \E ip \in Keys :
    /\ win[ip].refilled
    /\ rateLimitStore[ip].count = 2
    /\ rateLimitStore[ip].reset = now + WINDOW_MS
    /\ win[ip].start = now

\* C12: the count stored for a key is the number of POSTs received from
\* the key since its window opened: a POST inside the window adds one
\* whether it is answered 429 or 400 or issues its INSERT, and the later
\* answer of the store (201 or 500) leaves the count as it is.
C12_CountsEveryPost ==
  [][ /\ \A ip \in Keys : rateLimitStore'[ip].count = win'[ip].posts
      /\ PostStep =>
           \A ip \in Keys, body \in LimiterBodies :
             PostScores(ip, body) /\ win'[ip].start = win[ip].start /\ win[ip].open =>
               /\ rateLimitStore'[ip].count = rateLimitStore[ip].count + 1
               /\ \/ Is(res', "POST", 429) /\ pending' = pending
                  \/ Is(res', "POST", 400) /\ pending' = pending /\ Refused(body)
                  \/ pending' # pending
      /\ AnswerStep =>
           \A q \in pending :
             DbInsert(q) \/ DbFail(q) =>
               res'.status \in {201, 500} /\ rateLimitStore' = rateLimitStore
    ]_vars

C12_Witness ==
  \E ip \in Keys :
    /\ rateLimitStore[ip].count = RATE_MAX + 1
    /\ win[ip].posts = RATE_MAX + 1
    /\ Is(res, "POST", 429)
    /\ nextId = 1
    /\ pending = {}

\* C13: however the POSTs of a key interleave with the statements of
\* earlier POSTs still waiting for the store, none is lost: the stored count
\* is the number n of POSTs received in the window, and the number of them
\* the limiter let pass is min(n, RATE_MAX).
C13_NoLostUpdate ==
  \A ip \in Keys :
    /\ rateLimitStore[ip].count = win[ip].posts
    /\ win[ip].passed = Min(win[ip].posts, RATE_MAX)

C13_Witness ==
  \E ip \in Keys :
    /\ rateLimitStore[ip].count = RATE_MAX + 1
    /\ win[ip].passed = RATE_MAX
    /\ Cardinality(Inserts(pending)) = cfg.flight
    /\ cfg.flight > 1
    /\ Is(res, "POST", 429)
    /\ now = win[ip].start

\* C14: the rate-limit store changes only in a POST step, and then only in
\* the entry of the requesting key; GET /health, GET /api/scores, DELETE
\* and the answers of the store leave every entry as it was, so a POST is
\* refused with 429 exactly when its own key's window already holds
\* RATE_MAX POSTs.
C14_LimiterIsolation ==
  [][ /\ PostStep =>
           \E ip \in Keys :
             /\ \E body \in LimiterBodies : PostScores(ip, body)
             /\ \A k \in Keys \ {ip} : rateLimitStore'[k] = rateLimitStore[k]
             /\ (Is(res', "POST", 429) /\ pending' = pending) <=> win'[ip].posts > RATE_MAX
      /\ (res' # res /\ res'.op # "POST") \/ pending' # pending =>
           \/ rateLimitStore' = rateLimitStore
           \/ \E ip \in Keys, body \in LimiterBodies : PostScores(ip, body)
    ]_vars

C14_Witness ==
  \E ip, other \in Keys :
    /\ rateLimitStore[ip].count = RATE_MAX + 1
    /\ now <= rateLimitStore[ip].reset
    /\ rateLimitStore[other].count = 1
    /\ win[other].start = now
    /\ Is(res, "POST", 400)

\* C15: a DELETE statement for an id that no row has is answered 200 and
\* leaves the table as it was; and after any DELETE statement for an id the
\* table holds no row with that id, so the same DELETE again is answered
\* 200 and leaves the table as the first one left it.
C15_DeleteMissing ==
  [][ AnswerStep /\ res'.op = "DELETE" =>
        \A q \in pending :
          DbDelete(q) =>
            /\ Is(res', "DELETE", 200)
            /\ q.id \notin Ids(scores) => scores' = scores
            /\ q.id \notin Ids(scores')
            /\ SelectSeq(scores', LAMBDA r : r.id # q.id) = scores'
    ]_vars

C15_Witness ==
  /\ Is(res, "DELETE", 200)
  /\ Len(scores) = 2
  /\ everIds = Ids(scores)
  /\ pending = {}

\* C16: a DELETE that carries the admin secret and whose id segment holds a
\* character that is not a decimal digit is answered 400 and issues no
\* DELETE statement.
C16_NonNumericIdRejected ==
  [][ DeleteRequestStep =>
        \A hdr \in Headers, seg \in IdSegs :
          DeleteScore(hdr, seg) /\ CarriesSecret(hdr) /\ ~AllDigits(seg) =>
            Is(res', "DELETE", 400) /\ pending' = pending
    ]_vars

\* the first rule a body breaks, taking the name before the time and, for
\* the time, the whole-number rule before the bounds
FirstBroken(body) ==
  IF body.name.type # "string" \/ Blank(body.name.s) THEN "name is required"
  ELSE IF body.time.type # "number" \/ body.time.frac # 0
  THEN "time must be an integer (seconds)"
  ELSE IF body.time.int < MIN_TIME THEN "Time too fast"
  ELSE "Time value is unrealistically large"

\* C17: a POST that passes the limiter with a refused body is answered 400
\* with the error of the first rule its body breaks, whatever the state of
\* the server: a body with a bad name and a bad time gets the name error, a
\* time that is neither whole nor in range gets the whole-number error.
C17_ValidationOrder ==
  [][ PostStep =>
        \A ip \in cfg.keys, body \in {b \in Bodies : Refused(b)} :
          NthOfWindow(ip) <= RATE_MAX /\ PostScores(ip, body) =>
            /\ Is(res', "POST", 400)
            /\ res'.error = FirstBroken(body)
            /\ res'.rows = <<>>
    ]_vars

C17_Witness ==
  /\ Is(res, "POST", 400)
  /\ res.error = "name is required"
  /\ rateLimitStore["ip1"].count = 2
  /\ Len(scores) = 1
  /\ pending = {}

\* the characters of s from its first to its last non-whitespace character,
\* and the first MAX_NAME of them
Ink(s) == {i \in 1..Len(s) : s[i] \notin Whitespace}
FirstInk(s) == CHOOSE i \in Ink(s) : \A j \in Ink(s) : i <= j
LastInk(s) == CHOOSE i \in Ink(s) : \A j \in Ink(s) : j <= i
Core(s) == SubSeq(s, FirstInk(s), LastInk(s))
Kept(s) == SubSeq(s, FirstInk(s), Min(LastInk(s), FirstInk(s) + MAX_NAME - 1))

\* the name of an accepted POST is stored as the first MAX_NAME characters
\* of the submitted name without its leading and trailing whitespace
StoresKeptName ==
  /\ PostStep =>
       \A ip \in cfg.keys, body \in {b \in Bodies : ~Refused(b)} :
         PostScores(ip, body) /\ pending' # pending =>
           \E q \in pending' \ pending : q.name = Kept(body.name.s)
  /\ InsertStep =>
       \A q \in pending :
         DbInsert(q) /\ Is(res', "POST", 201) =>
           /\ Len(scores') = Len(scores) + 1
           /\ scores'[Len(scores')].name = q.name

EndsBlank(chars) == chars # <<>> /\ chars[Len(chars)] \in Whitespace
StartsBlank(chars) == chars # <<>> /\ chars[1] \in Whitespace

\* C18 as stated: the stored name is the submitted name trimmed and then
\* cut to MAX_NAME characters, and every stored name neither begins nor ends
\* with whitespace.
C18_StoredNameTrimmed_Original ==
  [][ /\ StoresKeptName
      /\ \A i \in 1..Len(scores') :
           ~StartsBlank(scores'[i].name) /\ ~EndsBlank(scores'[i].name)
    ]_vars

\* C18: the stored name is the submitted name trimmed and then cut to
\* MAX_NAME characters; every stored name is non-empty and does not begin
\* with whitespace, and it ends with whitespace only when the trimmed name
\* was longer than MAX_NAME characters with whitespace as its MAX_NAME-th
\* character, the stored name then being MAX_NAME characters long.
C18_StoredNameNormalForm ==
  [][ /\ StoresKeptName
      /\ PostStep =>
           \A ip \in cfg.keys, body \in {b \in Bodies : ~Refused(b)} :
             PostScores(ip, body) =>
               \A q \in pending' \ pending :
                 EndsBlank(q.name) =>
                   /\ Len(Core(body.name.s)) > MAX_NAME
                   /\ Core(body.name.s)[MAX_NAME] \in Whitespace
      /\ \A i \in 1..Len(scores') :
           /\ scores'[i].name # <<>>
           /\ ~StartsBlank(scores'[i].name)
           /\ EndsBlank(scores'[i].name) => Len(scores'[i].name) = MAX_NAME
    ]_vars

C18_Witness ==
  \E i \in 1..Len(scores) :
    /\ Len(scores[i].name) = MAX_NAME
    /\ EndsBlank(scores[i].name)
    /\ Is(res, "POST", 201)

\* C19: when the statement of a GET, POST or DELETE fails, the request is
\* answered 500 with the error "Database error" and no rows, the table is
\* left as it was, the statement is not issued again, and the rate-limit
\* store is left as it was: the count of every key still is the number of
\* POSTs received in its window, the failed one included.
C19_StoreFailure ==
  [][ AnswerStep /\ res'.status = 500 =>
        \A q \in pending :
          DbFail(q) =>
            /\ res'.op = (IF q.op = "SELECT" THEN "GET"
                          ELSE IF q.op = "INSERT" THEN "POST" ELSE "DELETE")
            /\ res'.error = "Database error"
            /\ res'.rows = <<>>
            /\ scores' = scores
            /\ nextId' = nextId
            /\ pending' = pending \ {q}
            /\ rateLimitStore' = rateLimitStore
            /\ \A ip \in Keys : rateLimitStore'[ip].count = win[ip].posts
    ]_vars

C19_Witness ==
  /\ Is(res, "POST", 500)
  /\ rateLimitStore["ip1"].count = 1
  /\ scores = <<>>
  /\ nextId = 1
  /\ pending = {}

====
